---- MODULE Spec2Model ----
(***************************************************************************)
(* The gallery subsystem of app.py: two tables (Card, Image), the uploads  *)
(* directory, the session's gallery_access flag, and the request handlers  *)
(* that change them.                                                       *)
(*                                                                         *)
(* Text (file names, card names, form fields) is a sequence of one-letter  *)
(* strings, so that split, rsplit, lower, secure_filename, splitext and    *)
(* the f-string of save_file are computed letter by letter.                *)
(***************************************************************************)
EXTENDS Integers, Sequences, FiniteSets, TLC

\* ------------------------------------------------------------------ bounds

\* Each specification below hands out Card ids up to its ...MaxCardId, keeps
\* at most ...MaxFiles files in the uploads directory and Image ids up to the
\* same number, and sends at most ...MaxBatch files in one request.

\* Spec: every route, one request at a time.
MaxCardId == 2
MaxFiles == 2
MaxBatch == 1

\* TreeSpec: the requests that build and cut the card tree.
TreeMaxCardId == 3
TreeMaxFiles == 2

\* ImageSpec: uploads into existing cards.
ImgMaxCardId == 1
ImgMaxFiles == 3
ImgMaxBatch == 2

\* SaveSpec: uploads of files whose names collide.
SaveMaxFiles == 3
SaveMaxBatch == 2

\* FolderSpec: folder uploads.
FoldMaxCardId == 2
FoldMaxFiles == 2
FoldMaxBatch == 2

\* ConcSpec: upload requests handled by two threads at once.
ConcMaxFiles == 2
ConcMaxBatch == 1

\* ------------------------------------------------------------- text helpers

RECURSIVE IndexOf(_, _, _)
\* The first position >= i of letter c in s, 0 when there is none (str.find).
IndexOf(s, c, i) ==
    IF i > Len(s) THEN 0
    ELSE IF s[i] = c THEN i
    ELSE IndexOf(s, c, i + 1)

RECURSIVE LastIndexOf(_, _, _)
\* The last position <= i of letter c in s, 0 when there is none (str.rfind).
LastIndexOf(s, c, i) ==
    IF i < 1 THEN 0
    ELSE IF s[i] = c THEN i
    ELSE LastIndexOf(s, c, i - 1)

\* str.lower on one letter of the model's alphabet.
LowerChar(c) ==
    CASE c = "G" -> "g"
      [] c = "I" -> "i"
      [] c = "F" -> "f"
      [] OTHER -> c

Lower(s) == [i \in 1..Len(s) |-> LowerChar(s[i])]

RECURSIVE Digits(_)
\* str(n) for n >= 0, as in the f-string of save_file.
Digits(n) ==
    LET d == <<"0", "1", "2", "3", "4", "5", "6", "7", "8", "9">>[(n % 10) + 1]
    IN  IF n < 10 THEN <<d>> ELSE Digits(n \div 10) \o <<d>>

DigitChars == {"0", "1", "2", "3", "4", "5", "6", "7", "8", "9"}

RECURSIVE ToInt(_, _)
\* int(s) of a string of decimal digits, acc the value read so far.
ToInt(s, acc) ==
    IF s = <<>> THEN acc
    ELSE ToInt(Tail(s),
               10 * acc + (CHOOSE k \in 0..9 : Digits(k) = <<Head(s)>>))

\* ------------------------------------------------------- program constants

ALLOWED_EXTENSIONS ==
    { <<"p", "n", "g">>, <<"j", "p", "g">>, <<"j", "p", "e", "g">>,
      <<"g", "i", "f">>, <<"w", "e", "b", "p">> }

\* GALLERY_PASSWORDS.get(password): the level, or "none" for None.
GALLERY_PASSWORDS(password) ==
    CASE password = <<"1", "2", "3">> -> "public"
      [] password = <<"a", "d", "m", "i", "n", "1", "2", "3">> -> "admin"
      [] OTHER -> "none"

UploadedFiles ==
    <<"U", "p", "l", "o", "a", "d", "e", "d", " ", "F", "i", "l", "e", "s">>

\* ------------------------------------------------------------ pure helpers

\* allowed_file: '.' in filename and the text after the last '.', lowered,
\* is an allowed extension.
allowed_file(filename) ==
    LET dot == LastIndexOf(filename, ".", Len(filename))
    IN  /\ dot > 0
        /\ Lower(SubSeq(filename, dot + 1, Len(filename))) \in ALLOWED_EXTENSIONS

\* The letters secure_filename keeps: [A-Za-z0-9_.-] of the model's alphabet.
SafeChars ==
    {"a", "b", "n", "t", "x", "g", "i", "f", "T", "G", "I", "F", "_", ".", "-"}
        \cup DigitChars

RECURSIVE SplitWords(_, _, _)
\* str.split() on whitespace: the non-empty runs of non-blank letters of s;
\* cur is the run being read, acc the runs read.
SplitWords(s, cur, acc) ==
    IF s = <<>> THEN (IF cur = <<>> THEN acc ELSE Append(acc, cur))
    ELSE IF Head(s) = " "
         THEN SplitWords(Tail(s), <<>>, IF cur = <<>> THEN acc ELSE Append(acc, cur))
         ELSE SplitWords(Tail(s), Append(cur, Head(s)), acc)

RECURSIVE JoinWords(_)
\* "_".join(words)
JoinWords(ws) ==
    IF ws = <<>> THEN <<>>
    ELSE IF Len(ws) = 1 THEN ws[1]
    ELSE ws[1] \o <<"_">> \o JoinWords(Tail(ws))

RECURSIVE StripLeft(_)
StripLeft(s) ==
    IF s # <<>> /\ Head(s) \in {".", "_"} THEN StripLeft(Tail(s)) ELSE s

RECURSIVE StripRight(_)
StripRight(s) ==
    IF s # <<>> /\ s[Len(s)] \in {".", "_"}
    THEN StripRight(SubSeq(s, 1, Len(s) - 1))
    ELSE s

\* werkzeug's secure_filename on ASCII text (POSIX): the path separator becomes
\* a blank, blank-separated words are joined by "_", every letter outside
\* [A-Za-z0-9_.-] is dropped, leading and trailing "." and "_" are stripped.
secure_filename(filename) ==
    LET blanks == [i \in 1..Len(filename) |->
                      IF filename[i] = "/" THEN " " ELSE filename[i]]
        joined == JoinWords(SplitWords(blanks, <<>>, <<>>))
        kept   == SelectSeq(joined, LAMBDA c : c \in SafeChars)
    IN  StripRight(StripLeft(kept))

\* os.path.splitext: the extension starts at the last '.', unless only dots
\* come before it.
splitext(name) ==
    LET dot == LastIndexOf(name, ".", Len(name))
    IN  IF dot > 0 /\ \E i \in 1..(dot - 1) : name[i] # "."
        THEN <<SubSeq(name, 1, dot - 1), SubSeq(name, dot, Len(name))>>
        ELSE <<name, <<>>>>

\* f"{name}_{counter}{ext}" of save_file
Suffixed(original_filename, counter) ==
    LET ne == splitext(original_filename)
    IN  ne[1] \o <<"_">> \o Digits(counter) \o ne[2]

RECURSIVE FreeName(_, _, _, _)
\* The while loop of save_file: the first of original, original_1, original_2,
\* ... that names no file of `existing`; filename is the candidate, counter the
\* loop's counter.
FreeName(existing, original_filename, filename, counter) ==
    IF filename \in existing
    THEN FreeName(existing, original_filename,
                  Suffixed(original_filename, counter), counter + 1)
    ELSE filename

\* ------------------------------------------------------------------- state

VARIABLES
    session,       \* session['gallery_access']: "none" (absent), "public", "admin"
    cards,         \* the card table: rows [id, name, parent_id]
    images,        \* the image table: rows [id, filename, card_id]
    files,         \* the uploads directory: file name -> bytes
    resp,          \* the response to the last request: route, status, flashes
    request,       \* what the last upload request carried: card_id, files, and
                   \* where an exception was raised while it was handled
    deleteFailed,  \* a delete request raised after it had removed files
    workers        \* the upload requests being handled, one per thread

vars == <<session, cards, images, files, resp, request, deleteFailed, workers>>

\* A nullable integer column: {} is NULL, {k} the integer k.
NULL == {}

Max(S) == CHOOSE m \in S : \A k \in S : k <= m

\* SQLite's rowid for an INTEGER PRIMARY KEY: one more than the largest in the
\* table, 1 in an empty table.
NextId(rows) == IF rows = {} THEN 1 ELSE Max({r.id : r \in rows}) + 1

Stored == DOMAIN files

\* file.save(filepath): create or truncate, then write.
WriteFile(fs, name, data) ==
    [n \in (DOMAIN fs) \cup {name} |-> IF n = name THEN data ELSE fs[n]]

\* os.remove under try/except OSError: a missing file is passed over.
RemoveFiles(fs, names) == [n \in (DOMAIN fs) \ names |-> fs[n]]

Flash(msg, name, n) == [msg |-> msg, name |-> name, n |-> n]

Response(route, status, flash) ==
    [route |-> route, status |-> status, flash |-> flash]

\* request.form['card_id'], request.files, and the place of the exception.
Upload(card_id, batch, raise_at) ==
    [card_id |-> card_id, files |-> batch, raise_at |-> raise_at]

NoUpload == Upload(0, <<>>, 0)

\* A check that lets every logged-in session through.
IsAdmin_anyLevel == session # "none"

\* The check every admin-only route starts with.
IsAdmin == session = "admin"

Forbidden(route) ==
    Response(route, "redirect_gallery", <<Flash("no_permission", <<>>, 0)>>)

AdminRoutes ==
    {"add_card", "edit_card", "upload_image", "upload_folder", "delete_card",
     "delete_image"}

\* An admin-only route called without the admin level.
Reject(route) ==
    /\ ~IsAdmin
    /\ resp' = Forbidden(route)
    /\ UNCHANGED <<session, cards, images, files, deleteFailed, workers>>

\* ------------------------------------------------------------ access gate

gallery_login(password) ==
    LET access_level == GALLERY_PASSWORDS(password)
    IN  /\ IF access_level # "none"
           THEN /\ session' = access_level
                /\ resp' = Response("gallery_login", "redirect_gallery",
                                    <<Flash("logged_in", <<>>, 0)>>)
           ELSE /\ session' = session
                /\ resp' = Response("gallery_login", "render_login",
                                    <<Flash("incorrect_password", <<>>, 0)>>)
        /\ request' = NoUpload
        /\ UNCHANGED <<cards, images, files, deleteFailed, workers>>

\* A gallery page that lists the cards without looking at the session.
gallery_noCheck ==
    /\ resp' = Response("gallery", "render_gallery", <<>>)
    /\ request' = NoUpload
    /\ UNCHANGED <<session, cards, images, files, deleteFailed, workers>>

gallery ==
    /\ resp' = IF session = "none"
               THEN Response("gallery", "redirect_login", <<>>)
               ELSE Response("gallery", "render_gallery", <<>>)
    /\ request' = NoUpload
    /\ UNCHANGED <<session, cards, images, files, deleteFailed, workers>>

gallery_logout ==
    /\ session' = "none"
    /\ resp' = Response("gallery_logout", "redirect_home", <<>>)
    /\ request' = NoUpload
    /\ UNCHANGED <<cards, images, files, deleteFailed, workers>>

\* ------------------------------------------------------------------ cards

NoneText == <<"N", "o", "n", "e">>

\* int(parent_id) if parent_id and parent_id != 'None' else None
ParseParent(parent_id) ==
    IF parent_id # <<>> /\ parent_id # NoneText THEN {ToInt(parent_id, 0)} ELSE NULL

add_card(card_name, parent_id) ==
    /\ request' = NoUpload
    /\ \/ Reject("add_card")
       \/ /\ IsAdmin
          /\ IF card_name # <<>>
             THEN /\ cards' = cards \cup
                        {[id |-> NextId(cards), name |-> card_name,
                          parent_id |-> ParseParent(parent_id)]}
                  /\ resp' = Response("add_card", "redirect_gallery",
                                      <<Flash("card_created", card_name, 0)>>)
             ELSE /\ cards' = cards
                  /\ resp' = Response("add_card", "redirect_gallery", <<>>)
          /\ UNCHANGED <<session, images, files, deleteFailed, workers>>

NotFound(route) == Response(route, "404", <<>>)

edit_card(card_id, new_name) ==
    /\ request' = NoUpload
    /\ \/ Reject("edit_card")
       \/ /\ IsAdmin
          /\ IF \E c \in cards : c.id = card_id
             THEN IF new_name # <<>>
                  THEN /\ cards' = {IF c.id = card_id
                                    THEN [c EXCEPT !.name = new_name] ELSE c
                                    : c \in cards}
                       /\ resp' = Response("edit_card", "redirect_gallery",
                                           <<Flash("card_renamed", new_name, 0)>>)
                  ELSE /\ cards' = cards
                       /\ resp' = Response("edit_card", "redirect_gallery",
                                           <<Flash("name_empty", <<>>, 0)>>)
             ELSE /\ cards' = cards
                  /\ resp' = NotFound("edit_card")
          /\ UNCHANGED <<session, images, files, deleteFailed, workers>>

\* ---------------------------------------------------------------- uploads

\* An uploaded file: the name the client sent and the bytes.
File(filename, data) == [filename |-> filename, data |-> data]

\* A loop that looks for a free name once and takes the first suffixed name
\* without looking again.
save_file_name_oneLook(fs, file) ==
    LET filename == secure_filename(file.filename)
    IN  IF filename \in DOMAIN fs THEN Suffixed(filename, 1) ELSE filename

\* save_file: the name the loop settles on, with the directory as it is when
\* the loop runs.
save_file_name(fs, file) ==
    LET filename == secure_filename(file.filename)
    IN  FreeName(DOMAIN fs, filename, filename, 1)

\* save_file: [fs: the directory after file.save(filepath), filename: the
\* name returned].
save_file(fs, file) ==
    LET filename == save_file_name(fs, file)
    IN  [fs |-> WriteFile(fs, filename, file.data), filename |-> filename]

\* The condition under which upload_image stores a file.
Accepted(file) == file.filename # <<>> /\ allowed_file(file.filename)

RECURSIVE UploadLoop_stopsAtRefused(_, _)
\* A loop that gives up the rest of the batch at the first refused file.
UploadLoop_stopsAtRefused(todo, st) ==
    IF todo = <<>> THEN st
    ELSE LET file == Head(todo)
             saved == save_file(st.fs, file)
         IN  IF Accepted(file)
             THEN UploadLoop_stopsAtRefused(Tail(todo),
                     [st EXCEPT !.fs = saved.fs,
                                !.added = Append(@, saved.filename)])
             ELSE IF file.filename # <<>>
             THEN [st EXCEPT !.flash =
                       Append(@, Flash("not_allowed", file.filename, 0))]
             ELSE UploadLoop_stopsAtRefused(Tail(todo), st)

RECURSIVE UploadLoop(_, _)
\* The for loop of upload_image over the files left, st = [fs: the directory,
\* added: the file names of the Image objects added to the session, flash].
UploadLoop(todo, st) ==
    IF todo = <<>> THEN st
    ELSE LET file == Head(todo)
             saved == save_file(st.fs, file)
         IN  IF Accepted(file)
             THEN UploadLoop(Tail(todo),
                     [st EXCEPT !.fs = saved.fs,
                                !.added = Append(@, saved.filename)])
             ELSE IF file.filename # <<>>
             THEN UploadLoop(Tail(todo),
                     [st EXCEPT !.flash =
                          Append(@, Flash("not_allowed", file.filename, 0))])
             ELSE UploadLoop(Tail(todo), st)

\* The rows a commit inserts for the Image objects added, in the order added.
NewImages(rows, added, card_id) ==
    { [id |-> NextId(rows) + i - 1, filename |-> added[i], card_id |-> card_id]
        : i \in 1..Len(added) }

\* The last flash of upload_image.
UploadReport(uploaded_count) ==
    IF uploaded_count > 0
    THEN Flash("uploaded", <<>>, uploaded_count)
    ELSE Flash("no_valid_files", <<>>, 0)

CardNotFound ==
    Response("upload_image", "redirect_gallery", <<Flash("card_not_found", <<>>, 0)>>)

upload_image(card_id, batch) ==
    /\ request' = Upload(card_id, batch, 0)
    /\ \/ Reject("upload_image")
       \/ /\ IsAdmin
          /\ IF \E c \in cards : c.id = card_id
             THEN LET st == UploadLoop(batch, [fs |-> files, added |-> <<>>,
                                               flash |-> <<>>])
                  IN  /\ files' = st.fs
                      /\ images' = images \cup NewImages(images, st.added, card_id)
                      /\ resp' = Response("upload_image", "redirect_gallery",
                                    Append(st.flash, UploadReport(Len(st.added))))
             ELSE /\ resp' = CardNotFound
                  /\ UNCHANGED <<images, files>>
          /\ UNCHANGED <<session, cards, deleteFailed, workers>>

\* A folder name that is never read from the path.
FolderName_default(first_file_path) == UploadedFiles

\* The card name upload_folder reads from the first file's path.
FolderName(first_file_path) ==
    LET slash == IndexOf(first_file_path, "/", 1)
    IN  IF slash > 0 THEN SubSeq(first_file_path, 1, slash - 1) ELSE UploadedFiles

RECURSIVE FolderLoop(_, _, _, _)
\* The for loop of upload_folder from file i on; save_file raises at file
\* number raise_at (that file is not written), never when raise_at is 0.
FolderLoop(batch, i, raise_at, st) ==
    IF i > Len(batch) THEN st
    ELSE IF batch[i].filename # <<>> /\ allowed_file(batch[i].filename)
         THEN IF i = raise_at
              THEN [st EXCEPT !.raised = TRUE]
              ELSE LET saved == save_file(st.fs, batch[i])
                   IN  FolderLoop(batch, i + 1, raise_at,
                          [st EXCEPT !.fs = saved.fs,
                                     !.added = Append(@, saved.filename)])
         ELSE FolderLoop(batch, i + 1, raise_at, st)

\* A rollback that leaves the flushed and pending rows in the table.
Rollback_keepsPending(committed, pending) == committed \cup pending

\* db.session.rollback(): the table without the rows of this transaction.
Rollback(committed, pending) == committed

\* raise_at: 0 no exception; i in 1..Len(batch): save_file raises at file i;
\* Len(batch) + 1: the commit raises.
upload_folder(batch, raise_at) ==
    /\ raise_at > 0 => (IsAdmin /\ batch # <<>>)
    /\ request' = Upload(0, batch, raise_at)
    /\ \/ Reject("upload_folder")
       \/ /\ IsAdmin
          /\ IF batch = <<>>
             THEN /\ resp' = Response("upload_folder", "redirect_gallery",
                                      <<Flash("no_files", <<>>, 0)>>)
                  /\ UNCHANGED <<cards, images, files>>
             ELSE LET card_name == FolderName(batch[1].filename)
                      new_card == [id |-> NextId(cards), name |-> card_name,
                                   parent_id |-> NULL]
                      st == FolderLoop(batch, 1, raise_at,
                               [fs |-> files, added |-> <<>>, raised |-> FALSE])
                      new_images == NewImages(images, st.added, new_card.id)
                  IN  /\ raise_at \in 1..Len(batch) => st.raised
                      /\ files' = st.fs
                      /\ IF st.raised \/ raise_at = Len(batch) + 1
                         THEN /\ cards' = Rollback(cards, {new_card})
                              /\ images' = Rollback(images, new_images)
                              /\ resp' = Response("upload_folder", "redirect_gallery",
                                            <<Flash("folder_error", <<>>, 0)>>)
                         ELSE /\ cards' = cards \cup {new_card}
                              /\ images' = images \cup new_images
                              /\ resp' = Response("upload_folder", "redirect_gallery",
                                            <<Flash("folder_created", card_name,
                                                    Len(st.added))>>)
          /\ UNCHANGED <<session, deleteFailed, workers>>

\* ---------------------------------------------------------------- deletes

\* Card.children: the rows whose parent_id is this card's id.
Children(rows, id) == {c \in rows : c.parent_id = {id}}

RECURSIVE Cascade(_, _, _)
\* The cards the ORM's delete cascade reaches from `frontier` through children.
Cascade(rows, frontier, seen) ==
    IF frontier = {} THEN seen
    ELSE LET next == UNION {Children(rows, c.id) : c \in frontier} \ seen
         IN  Cascade(rows, next, seen \cup next)

\* The descendants of a card: its children, their children, and so on.
Descendants(rows, card) == Cascade(rows, {card}, {})

\* Card.images
ImagesOf(rows, card_id) == {i \in rows : i.card_id = card_id}

delete_card(card_id) ==
    /\ request' = NoUpload
    /\ \/ Reject("delete_card")
       \/ /\ IsAdmin
          /\ IF \E c \in cards : c.id = card_id
             THEN LET card_to_delete == CHOOSE c \in cards : c.id = card_id
                      direct == ImagesOf(images, card_id)
                      below == Descendants(cards, card_to_delete)
                      gone == {card_to_delete} \cup below
                  IN  /\ files' = RemoveFiles(files, {i.filename : i \in direct})
                      /\ IF card_to_delete \in below
                         THEN \* The rows to delete depend on each other in a
                              \* cycle: the flush of the commit raises
                              \* CircularDependencyError, the request ends in an
                              \* error and nothing is committed.
                              /\ UNCHANGED <<cards, images>>
                              /\ deleteFailed' = TRUE
                              /\ resp' = Response("delete_card", "500", <<>>)
                         ELSE /\ cards' = cards \ gone
                              /\ images' = {i \in images :
                                               i.card_id \notin {c.id : c \in gone}}
                              /\ UNCHANGED deleteFailed
                              /\ resp' = Response("delete_card", "redirect_gallery",
                                            <<Flash("card_deleted",
                                                    card_to_delete.name, 0)>>)
             ELSE /\ resp' = NotFound("delete_card")
                  /\ UNCHANGED <<cards, images, files, deleteFailed>>
          /\ UNCHANGED <<session, workers>>

delete_image(image_id) ==
    /\ request' = NoUpload
    /\ \/ Reject("delete_image")
       \/ /\ IsAdmin
          /\ IF \E i \in images : i.id = image_id
             THEN LET image_to_delete == CHOOSE i \in images : i.id = image_id
                  IN  /\ files' = RemoveFiles(files, {image_to_delete.filename})
                      /\ images' = images \ {image_to_delete}
                      /\ resp' = Response("delete_image", "redirect_gallery",
                                          <<Flash("image_deleted", <<>>, 0)>>)
             ELSE /\ resp' = NotFound("delete_image")
                  /\ UNCHANGED <<images, files>>
          /\ UNCHANGED <<session, cards, deleteFailed, workers>>

\* ------------------------------------------- uploads handled concurrently

\* A thread of the server handling POST /gallery/upload_image; pc is where it
\* stands: "idle" (no request), "exists" (at the os.path.exists test of
\* save_file's loop), "save" (the test came out free, file.save is next),
\* "commit" (the for loop is over).
Idle ==
    [pc |-> "idle", card_id |-> 0, todo |-> <<>>, original_filename |-> <<>>,
     filename |-> <<>>, counter |-> 0, added |-> <<>>, flash |-> <<>>]

Workers == {1, 2}

RECURSIVE NextFile(_)
\* The for loop of upload_image up to the next call of save_file: refused
\* files are passed over, and save_file starts with the sanitized name as the
\* candidate and the counter at 1.
NextFile(wk) ==
    IF wk.todo = <<>> THEN [wk EXCEPT !.pc = "commit"]
    ELSE LET file == Head(wk.todo)
         IN  IF Accepted(file)
             THEN [wk EXCEPT !.pc = "exists",
                             !.original_filename = secure_filename(file.filename),
                             !.filename = secure_filename(file.filename),
                             !.counter = 1]
             ELSE IF file.filename # <<>>
             THEN NextFile([wk EXCEPT !.todo = Tail(@),
                       !.flash = Append(@, Flash("not_allowed", file.filename, 0))])
             ELSE NextFile([wk EXCEPT !.todo = Tail(@)])

\* The request arrives: the permission test, the card lookup, and the loop up
\* to the first save_file.
Begin(w, card_id, batch) ==
    /\ workers[w].pc = "idle"
    /\ request' = Upload(card_id, batch, 0)
    /\ \/ Reject("upload_image")
       \/ /\ IsAdmin
          /\ IF \E c \in cards : c.id = card_id
             THEN /\ workers' = [workers EXCEPT ![w] =
                         NextFile([Idle EXCEPT !.card_id = card_id, !.todo = batch])]
                  /\ UNCHANGED resp
             ELSE /\ resp' = CardNotFound
                  /\ UNCHANGED workers
          /\ UNCHANGED <<session, cards, images, files, deleteFailed>>

\* One turn of `while os.path.exists(filepath)`.
Exists(w) ==
    LET wk == workers[w]
    IN  /\ wk.pc = "exists"
        /\ workers' = [workers EXCEPT ![w] =
              IF wk.filename \in Stored
              THEN [wk EXCEPT !.filename = Suffixed(wk.original_filename, wk.counter),
                              !.counter = @ + 1]
              ELSE [wk EXCEPT !.pc = "save"]]
        /\ UNCHANGED <<session, cards, images, files, resp, request, deleteFailed>>

\* A write that looks for a free name again at the moment it writes.
Save_checksAgain(w) ==
    LET wk == workers[w]
        file == Head(wk.todo)
        filename == FreeName(Stored, wk.original_filename, wk.filename, wk.counter)
    IN  /\ wk.pc = "save"
        /\ files' = WriteFile(files, filename, file.data)
        /\ workers' = [workers EXCEPT ![w] =
              NextFile([wk EXCEPT !.todo = Tail(@),
                                  !.added = Append(@, filename)])]
        /\ UNCHANGED <<session, cards, images, resp, request, deleteFailed>>

\* file.save(filepath) under the name the loop left with, the Image added to
\* the session, and the for loop up to the next save_file.
Save(w) ==
    LET wk == workers[w]
        file == Head(wk.todo)
    IN  /\ wk.pc = "save"
        /\ files' = WriteFile(files, wk.filename, file.data)
        /\ workers' = [workers EXCEPT ![w] =
              NextFile([wk EXCEPT !.todo = Tail(@),
                                  !.added = Append(@, wk.filename)])]
        /\ UNCHANGED <<session, cards, images, resp, request, deleteFailed>>

\* The commit, when a file was stored, and the last flash.
Commit(w) ==
    LET wk == workers[w]
    IN  /\ wk.pc = "commit"
        /\ images' = images \cup NewImages(images, wk.added, wk.card_id)
        /\ resp' = Response("upload_image", "redirect_gallery",
                            Append(wk.flash, UploadReport(Len(wk.added))))
        /\ workers' = [workers EXCEPT ![w] = Idle]
        /\ UNCHANGED <<session, cards, files, request, deleteFailed>>

\* ----------------------------------------------------------------- inputs

\* A fresh deployment: empty tables (db.create_all), an empty uploads
\* directory, a browser without a session cookie, no request in progress.
Init ==
    /\ session = "none"
    /\ cards = {}
    /\ images = {}
    /\ files = << >>
    /\ resp = Response("start", "none", <<>>)
    /\ request = NoUpload
    /\ deleteFailed = FALSE
    /\ workers = [w \in Workers |-> Idle]

AdminPassword == <<"a", "d", "m", "i", "n", "1", "2", "3">>

\* The two configured secrets, an unconfigured one, and an empty field.
Passwords == {<<"1", "2", "3">>, AdminPassword, <<"x">>, <<>>}

NameA == <<"a">>
NameB == <<"b">>

\* Uploaded files. "T/a.GIF" and "T a.GIF" have the same sanitized name,
\* "T_a.GIF", and "T_a_1.GIF" is that name with the first suffix.
FileTrip == File(<<"T", "/", "a", ".", "G", "I", "F">>, 1)
FileFlat == File(<<"T", " ", "a", ".", "G", "I", "F">>, 2)
FileOne == File(<<"T", "_", "a", "_", "1", ".", "G", "I", "F">>, 3)
FileText == File(<<"n", ".", "t", "x", "t">>, 4)
FileEmpty == File(<<>>, 0)

\* The sequences over S of length at most n.
SeqsUpTo(S, n) == UNION {[1..k -> S] : k \in 0..n}

\* The number of files of a batch that save_file is called on.
NumAccepted(batch) == Cardinality({i \in 1..Len(batch) : Accepted(batch[i])})

Storable(batches) == [batch \in batches |-> NumAccepted(batch)]

\* The rows of in-flight upload requests that are not committed yet.
InFlight ==
    LET n(w) == Len(workers[w].added) + NumAccepted(workers[w].todo)
    IN  n(1) + n(2)

\* n more files keep the directory and the image ids within maxFiles.
Room(n, maxFiles) ==
    /\ Cardinality(Stored) + n <= maxFiles
    /\ (IF images = {} THEN 0 ELSE Max({i.id : i \in images})) + n <= maxFiles

\* ------------------------------------------- every route, one at a time

Batches == SeqsUpTo({FileFlat}, MaxBatch)
BatchSize == Storable(Batches)

Next ==
    \/ \E password \in Passwords : gallery_login(password)
    \/ gallery
    \/ gallery_logout
    \/ NextId(cards) <= MaxCardId /\ add_card(NameA, NoneText)
    \/ \E card_id \in 1..MaxCardId : edit_card(card_id, NameB)
    \/ \E card_id \in 1..MaxCardId, batch \in Batches :
          Room(BatchSize[batch], MaxFiles) /\ upload_image(card_id, batch)
    \/ \E batch \in Batches :
          /\ NextId(cards) <= MaxCardId
          /\ Room(BatchSize[batch], MaxFiles)
          /\ upload_folder(batch, 0)
    \/ \E card_id \in 1..MaxCardId : delete_card(card_id)
    \/ \E image_id \in 1..MaxFiles : delete_image(image_id)

Spec == Init /\ [][Next]_vars

\* ------------------------------------------------------- the tree of cards

TreeNext ==
    \/ gallery_login(AdminPassword)
    \/ \E parent_id \in {NoneText} \cup {Digits(k) : k \in 1..TreeMaxCardId} :
          NextId(cards) <= TreeMaxCardId /\ add_card(NameA, parent_id)
    \/ \E card_id \in 1..TreeMaxCardId :
          Room(1, TreeMaxFiles) /\ upload_image(card_id, <<FileFlat>>)
    \/ \E card_id \in 1..TreeMaxCardId : delete_card(card_id)
    \/ \E image_id \in 1..TreeMaxFiles : delete_image(image_id)

TreeSpec == Init /\ [][TreeNext]_vars

\* ------------------------------------------------------------ image uploads

ImgBatches == SeqsUpTo({FileTrip, FileText, FileEmpty}, ImgMaxBatch)
ImgBatchSize == Storable(ImgBatches)

ImageNext ==
    \/ gallery_login(AdminPassword)
    \/ NextId(cards) <= ImgMaxCardId /\ add_card(NameA, NoneText)
    \/ \E card_id \in 1..ImgMaxCardId, batch \in ImgBatches :
          Room(ImgBatchSize[batch], ImgMaxFiles) /\ upload_image(card_id, batch)
    \/ \E image_id \in 1..ImgMaxFiles : delete_image(image_id)

ImageSpec == Init /\ [][ImageNext]_vars

\* ------------------------------------------------------- colliding names

SaveBatches == SeqsUpTo({FileTrip, FileFlat, FileOne}, SaveMaxBatch)
SaveBatchSize == Storable(SaveBatches)

SaveNext ==
    \/ gallery_login(AdminPassword)
    \/ NextId(cards) <= 1 /\ add_card(NameA, NoneText)
    \/ \E batch \in SaveBatches :
          Room(SaveBatchSize[batch], SaveMaxFiles) /\ upload_image(1, batch)
    \/ \E image_id \in 1..SaveMaxFiles : delete_image(image_id)

SaveSpec == Init /\ [][SaveNext]_vars

\* ----------------------------------------------------------- folder uploads

FoldBatches == SeqsUpTo({FileTrip, FileText}, FoldMaxBatch)
FoldBatchSize == Storable(FoldBatches)

FolderNext ==
    \/ gallery_login(AdminPassword)
    \/ \E batch \in FoldBatches, raise_at \in 0..(FoldMaxBatch + 1) :
          /\ raise_at <= Len(batch) + 1
          /\ NextId(cards) <= FoldMaxCardId
          /\ Room(FoldBatchSize[batch], FoldMaxFiles)
          /\ upload_folder(batch, raise_at)
    \/ \E card_id \in 1..FoldMaxCardId : delete_card(card_id)
    \/ \E image_id \in 1..FoldMaxFiles : delete_image(image_id)

FolderSpec == Init /\ [][FolderNext]_vars

\* ------------------------------------------------- two uploads at a time

ConcBatches == SeqsUpTo({FileTrip, FileFlat}, ConcMaxBatch)
ConcBatchSize == Storable(ConcBatches)

ConcNext ==
    \/ gallery_login(AdminPassword)
    \/ NextId(cards) <= 1 /\ add_card(NameA, NoneText)
    \/ \E w \in Workers, batch \in ConcBatches :
          Room(InFlight + ConcBatchSize[batch], ConcMaxFiles) /\ Begin(w, 1, batch)
    \/ \E w \in Workers : Exists(w)
    \/ \E w \in Workers : Save(w)
    \/ \E w \in Workers : Commit(w)
    \/ \E image_id \in 1..ConcMaxFiles : delete_image(image_id)

ConcSpec == Init /\ [][ConcNext]_vars

\* ----------------------------------------------------------------- claims

DbUnchanged == UNCHANGED <<cards, images, files>>

\* C1: a request to add_card, edit_card, upload_image, upload_folder,
\* delete_card or delete_image from a session whose level is not "admin" is
\* answered with the no-permission redirect and changes no card, image, file or
\* session level; and whatever changes a card, an image or a file is one of
\* these six routes called with the admin level.
C1_OnlyAdminMutates ==
    [][ /\ (resp'.route \in AdminRoutes /\ session # "admin")
            => (resp' = Forbidden(resp'.route) /\ DbUnchanged /\ session' = session)
        /\ ~DbUnchanged => (session = "admin" /\ resp'.route \in AdminRoutes) ]_vars

C1_Witness ==
    /\ session = "public"
    /\ resp = Forbidden("delete_card")
    /\ cards # {}
    /\ images # {}

\* What the claim promises of delete_card(card_id): the card, its descendants
\* and all their Image rows are gone, the files of the card's own images are
\* gone, and the files of the descendants' images that were there still are.
DeletesSubtree(card_id) ==
    LET card == CHOOSE c \in cards : c.id = card_id
        subtree == {card} \cup Descendants(cards, card)
        ids == {c.id : c \in subtree}
        direct == {i.filename : i \in ImagesOf(images, card_id)}
    IN  /\ cards' = cards \ subtree
        /\ images' = {i \in images : i.card_id \notin ids}
        /\ DOMAIN files' = DOMAIN files \ direct
        /\ \A i \in images :
              (/\ i.card_id \in ids \ {card_id}
               /\ i.filename \in DOMAIN files
               /\ i.filename \notin direct)
                 => i.filename \in DOMAIN files'
        /\ \A n \in DOMAIN files' : files'[n] = files[n]

\* C2: delete_card by an admin on an existing card removes the card, all its
\* descendants and all their Image rows, removes the files of the card's own
\* images and leaves the files of the descendants' images on disk.
C2_AsStated ==
    [][ \A card_id \in 1..TreeMaxCardId :
          (IsAdmin /\ (\E c \in cards : c.id = card_id) /\ delete_card(card_id))
             => DeletesSubtree(card_id) ]_vars

OnCycle(c) == c \in Descendants(cards, c)

\* C2 on the cards the parent relation does not lead back to: what the
\* statement promises holds for them.
C2_OffCycles ==
    [][ \A card_id \in 1..TreeMaxCardId :
          (/\ IsAdmin
           /\ \E c \in cards : c.id = card_id /\ ~OnCycle(c)
           /\ delete_card(card_id))
             => DeletesSubtree(card_id) ]_vars

\* C8: the parent relation over cards is acyclic and every card has at most
\* one parent, whatever parent_id the client sends.
C8_AsStated == \A c \in cards : ~OnCycle(c) /\ Cardinality(c.parent_id) <= 1

LoginRefused(r) == r.route = "gallery_login" /\ r.status = "render_login"

\* C9: after a login with an unconfigured secret, GET /gallery redirects to the
\* login page, whatever the session held before.
C9_AsStated ==
    [][ (LoginRefused(resp) /\ resp'.route = "gallery")
           => resp'.status = "redirect_login" ]_vars

\* C9, amended: a login with an unconfigured secret is refused and leaves the
\* session level as it was; GET /gallery right after it redirects to the login
\* page exactly when the session held no level.
C9_RefusedLoginKeepsLevel ==
    [][ /\ \A password \in Passwords :
             (GALLERY_PASSWORDS(password) = "none" /\ gallery_login(password))
                => (LoginRefused(resp') /\ session' = session)
        /\ (LoginRefused(resp) /\ resp'.route = "gallery")
             => (resp'.status = "redirect_login" <=> session = "none") ]_vars

C9_Witness ==
    /\ session = "none"
    /\ resp = Response("gallery", "redirect_login", <<>>)
    /\ cards # {}

\* An upload_folder request by an admin in which an exception was raised.
FolderRaised ==
    resp'.route = "upload_folder" /\ IsAdmin /\ request'.raise_at > 0

\* C3: when an exception is raised in upload_folder after the new Card was
\* flushed, cards and images are after the request exactly as before it, every
\* file written before the exception is on disk with its bytes, no file that
\* was there is touched, and the error is reported.
C3_RollbackKeepsFiles ==
    [][ FolderRaised =>
          LET batch == request'.files
              written == SubSeq(batch, 1, request'.raise_at - 1)
              new == DOMAIN files' \ DOMAIN files
          IN  /\ cards' = cards
              /\ images' = images
              /\ DOMAIN files \subseteq DOMAIN files'
              /\ \A n \in DOMAIN files : files'[n] = files[n]
              /\ Cardinality(new) = NumAccepted(written)
              /\ \A i \in 1..Len(written) :
                    Accepted(written[i]) => \E n \in new : files'[n] = written[i].data
              /\ resp'.flash = <<Flash("folder_error", <<>>, 0)>> ]_vars

C3_Witness ==
    /\ resp = Response("upload_folder", "redirect_gallery",
                       <<Flash("folder_error", <<>>, 0)>>)
    /\ request.raise_at >= 2
    /\ cards = {}
    /\ images = {}
    /\ Cardinality(Stored) >= 1

\* The text before the first '/' of path, "Uploaded Files" when it has none.
BeforeFirstSlash(path, name) ==
    \/ /\ \A k \in 1..Len(path) : path[k] # "/"
       /\ name = UploadedFiles
    \/ \E k \in 1..Len(path) :
          /\ path[k] = "/"
          /\ \A j \in 1..(k - 1) : path[j] # "/"
          /\ name = SubSeq(path, 1, k - 1)

\* C4: an upload_folder by an admin on a non-empty batch in which nothing is
\* raised adds exactly one card, with a new id, no parent and the name read
\* from the first file's path, adds one Image row under that card for each file
\* of the batch with an allowed extension and no other row, and leaves every
\* other card as it was.
C4_OneCardPerFolder ==
    [][ (/\ resp'.route = "upload_folder"
         /\ IsAdmin
         /\ request'.files # <<>>
         /\ request'.raise_at = 0)
        => LET batch == request'.files
               allowed == {i \in 1..Len(batch) : allowed_file(batch[i].filename)}
           IN  \E card \in cards' \ cards :
                  /\ cards' = cards \cup {card}
                  /\ card.id \notin {c.id : c \in cards}
                  /\ card.parent_id = NULL
                  /\ BeforeFirstSlash(batch[1].filename, card.name)
                  /\ images \subseteq images'
                  /\ \A i \in images' \ images : i.card_id = card.id
                  /\ Cardinality(images' \ images) = Cardinality(allowed)
                  /\ resp'.flash = <<Flash("folder_created", card.name,
                                           Cardinality(allowed))>> ]_vars

C4_Witness ==
    /\ request = Upload(0, <<FileTrip, FileText>>, 0)
    /\ resp.flash = <<Flash("folder_created", <<"T">>, 1)>>
    /\ \E c \in cards :
          /\ c.name = <<"T">>
          /\ c.parent_id = NULL
          /\ Cardinality(ImagesOf(images, c.id)) = 1

\* name, name_1, name_2, ...: the names save_file tries, in order.
Candidate(name, k) == IF k = 0 THEN name ELSE Suffixed(name, k)

\* stored is the first candidate for name that names no file of existing.
SmallestFree(existing, name, stored) ==
    \E k \in 0..Cardinality(existing) :
       /\ stored = Candidate(name, k)
       /\ stored \notin existing
       /\ \A j \in 0..(k - 1) : Candidate(name, j) \in existing

\* An upload_image request by an admin on an existing card.
ImageUploaded ==
    /\ resp'.route = "upload_image"
    /\ IsAdmin
    /\ \E c \in cards : c.id = request'.card_id

\* The name the i-th stored file of the request got: rows are inserted in the
\* order the files were stored.
StoredAs(i) == (CHOOSE r \in images' : r.id = NextId(images) + i - 1).filename

\* save_file, call by call, in a request whose files are all stored: the name
\* returned is the first free candidate when the call is made, the file's
\* bytes are under that name, and no file that existed is overwritten.
SaveFileFindsFreeName ==
    (ImageUploaded /\ \A i \in 1..Len(request'.files) : Accepted(request'.files[i]))
    => LET batch == request'.files
           before(i) == Stored \cup {StoredAs(j) : j \in 1..(i - 1)}
       IN  /\ \A i \in 1..Len(batch) :
                 /\ SmallestFree(before(i), secure_filename(batch[i].filename),
                                 StoredAs(i))
                 /\ files'[StoredAs(i)] = batch[i].data
           /\ \A n \in Stored : files'[n] = files[n]

\* A request with two files of the same sanitized name.
SameNameTwice ==
    /\ ImageUploaded
    /\ Len(request'.files) = 2
    /\ \A i \in 1..2 : Accepted(request'.files[i])
    /\ secure_filename(request'.files[1].filename)
          = secure_filename(request'.files[2].filename)

\* C5: save_file returns the first free candidate and overwrites nothing, and
\* two files with the same sanitized name uploaded in one request into a store
\* without that name are stored as name.ext and name_1.ext.
C5_AsStated ==
    [][ /\ SaveFileFindsFreeName
        /\ LET name == secure_filename(request'.files[1].filename)
           IN  (SameNameTwice /\ name \notin Stored)
                  => (StoredAs(1) = name /\ StoredAs(2) = Suffixed(name, 1)) ]_vars

\* C5, amended: save_file returns the first free candidate and overwrites
\* nothing, and two files with the same sanitized name uploaded in one request
\* into a store with neither that name nor name_1.ext are stored as name.ext
\* and name_1.ext.
C5_FirstFreeName ==
    [][ /\ SaveFileFindsFreeName
        /\ LET name == secure_filename(request'.files[1].filename)
           IN  (SameNameTwice /\ name \notin Stored /\ Suffixed(name, 1) \notin Stored)
                  => (StoredAs(1) = name /\ StoredAs(2) = Suffixed(name, 1)) ]_vars

C5_Witness ==
    /\ request.files = <<FileTrip, FileFlat>>
    /\ resp.flash = <<Flash("uploaded", <<>>, 2)>>
    /\ Stored = {secure_filename(FileTrip.filename),
                 Suffixed(secure_filename(FileTrip.filename), 1)}
    /\ files[secure_filename(FileTrip.filename)] = FileTrip.data
    /\ files[Suffixed(secure_filename(FileTrip.filename), 1)] = FileFlat.data

\* C6: upload_image by an admin on an existing card stores every file with an
\* allowed extension and adds one Image row of that card for it, stores nothing
\* and adds no row for the others, warns once for each named file that is
\* refused and not at all for a file without a name, reports the number of rows
\* added, and reports the generic failure, adding nothing, when that is zero.
C6_PartialSuccess ==
    [][ ImageUploaded =>
          LET batch == request'.files
              named == {i \in 1..Len(batch) : batch[i].filename # <<>>}
              allowed == {i \in named : allowed_file(batch[i].filename)}
              refused == named \ allowed
              rows == images' \ images
              new == DOMAIN files' \ DOMAIN files
              warnings == SubSeq(resp'.flash, 1, Len(resp'.flash) - 1)
          IN  /\ images \subseteq images'
              /\ Cardinality(rows) = Cardinality(allowed)
              /\ \A r \in rows : r.card_id = request'.card_id
              /\ new = {r.filename : r \in rows}
              /\ Cardinality(new) = Cardinality(allowed)
              /\ \A i \in allowed : \E n \in new : files'[n] = batch[i].data
              /\ \A n \in DOMAIN files : n \in DOMAIN files' /\ files'[n] = files[n]
              /\ Len(warnings) = Cardinality(refused)
              /\ \A i \in refused :
                    \E j \in 1..Len(warnings) :
                       warnings[j] = Flash("not_allowed", batch[i].filename, 0)
              /\ resp'.flash[Len(resp'.flash)] =
                    IF Cardinality(rows) > 0
                    THEN Flash("uploaded", <<>>, Cardinality(rows))
                    ELSE Flash("no_valid_files", <<>>, 0)
              /\ Cardinality(allowed) = 0 => (images' = images /\ files' = files) ]_vars

C6_Witness ==
    /\ request.files = <<FileText, FileTrip>>
    /\ resp.flash = <<Flash("not_allowed", FileText.filename, 0),
                      Flash("uploaded", <<>>, 1)>>
    /\ \E i \in images : i.filename \in Stored /\ files[i.filename] = FileTrip.data

\* C7: in every reachable state in which no delete has failed part-way, every
\* Image row's filename names a file of the uploads directory.
C7_AsStated == ~deleteFailed => \A i \in images : i.filename \in Stored

\* C10: the write of save_file goes to the name its existence test left with,
\* whatever has been written since: a thread past the test writes under that
\* name even when another thread has stored a file there in between, the bytes
\* stored there are replaced by its own, and the name is the one its Image row
\* gets.
C10_WriteAfterCheck ==
    [][ \A w \in Workers :
          (workers[w].pc = "save" /\ workers'[w] # workers[w])
             => LET wk == workers[w]
                IN  /\ files' = WriteFile(files, wk.filename, Head(wk.todo).data)
                    /\ workers'[w].added = Append(wk.added, wk.filename)
                    /\ wk.filename \in Stored => DOMAIN files' = DOMAIN files ]_vars

\* Two upload requests have ended with two Image rows for one stored file,
\* which holds the bytes of one of the two uploads only.
C10_Witness ==
    /\ \A w \in Workers : workers[w].pc = "idle"
    /\ \E i, j \in images :
          /\ i.id # j.id
          /\ i.filename = j.filename
          /\ i.filename \in Stored
    /\ Cardinality(Stored) = 1

====
